---- MODULE Spec2Model ----
(***************************************************************************)
(* Model of furnace_analyzer.py: the cycle detector analyze_cycle and the  *)
(* charge matcher / unit-economics loop process_data.                      *)
(*                                                                         *)
(* Columns of the data frames are record fields:                           *)
(*   '일시' -> t (seconds), '온도' -> temp, '가스지침' -> gas,             *)
(*   '가열로' -> unit, the frame's index label -> idx,                     *)
(*   '시작일시' -> start, '장입량' -> weight.                              *)
(***************************************************************************)
EXTENDS Integers, Sequences, FiniteSets, TLC

VARIABLES
    pc,            \* position of the run
    sensor_files,  \* argument: the uploaded sensor files
    prod_table,    \* argument df_prod as uploaded (BadTable: a column is missing)
    cfg,           \* the threshold / tolerance arguments (sidebar values)
    df_prod,       \* df_prod after preprocessing
    fi,            \* loop position of "for f in sensor_files"
    df_list,       \* frames appended so far
    df_sensor,     \* pd.concat(df_list, ignore_index=True)
    unit_ids,      \* df_sensor['가열로'].unique()
    ui,            \* loop position of "for unit_id in unit_ids"
    ci,            \* loop position of "for index, prod_row in df_prod_unit.iterrows()"
    window_start,  \* local of the charge loop
    window_end,    \* local of the charge loop
    daily_window,  \* local of the charge loop / argument daily_data of analyze_cycle
    cycle_info,    \* what analyze_cycle returned
    results,       \* the list of result rows
    ret            \* what process_data returned (or the exception that left it)

vars == <<pc, sensor_files, prod_table, cfg, df_prod, fi, df_list, df_sensor,
          unit_ids, ui, ci, window_start, window_end, daily_window, cycle_info,
          results, ret>>

(***************************************************************************)
(* Values                                                                  *)
(***************************************************************************)
NaT == -1                      \* pd.to_datetime(..., errors='coerce') of an unparseable cell
NaN == -1000000                \* pd.to_numeric(..., errors='coerce') of an unparseable cell
NoUnit == <<-1, FALSE>>        \* extract_furnace_id_from_filename found no match
None == "None"
NoRow == [idx |-> 0, unit |-> NoUnit, t |-> NaT, temp |-> 0, gas |-> 0]

SecondsPerHour == 3600
SecondsPerMinute == 60

\* timedelta(hours=h)
timedelta_hours(h) == h * SecondsPerHour

\* ts.strftime('%Y-%m-%d %H:%M'): the timestamp cut to its minute
strftime_minute(ts) == ts - (ts % SecondsPerMinute)

Min(S) == CHOOSE x \in S : \A y \in S : x <= y
Max(S) == CHOOSE x \in S : \A y \in S : x >= y

(***************************************************************************)
(* analyze_cycle                                                           *)
(***************************************************************************)
LookAhead == 10                \* daily_data.loc[idx:idx + 10]
MinSamples == 5                \* if len(window) < 5: continue
MinRise == 5                   \* ... >= 5
CheckDelayHours == 2           \* start_time + timedelta(hours=2)

\* low_temp_indices with "<" for "<="
low_temp_indices_lt(daily_data, temp_start) ==
    {p \in DOMAIN daily_data : daily_data[p].temp < temp_start}

\* daily_data[daily_data['온도'] <= temp_start], as positions of daily_data
low_temp_indices(daily_data, temp_start) ==
    {p \in DOMAIN daily_data : daily_data[p].temp <= temp_start}

\* daily_data.loc[idx:idx + 10]: the rows whose LABEL lies in idx..idx+10
lookahead_window(daily_data, p) ==
    SelectSeq(daily_data, LAMBDA r : /\ r.idx >= daily_data[p].idx
                                     /\ r.idx <= daily_data[p].idx + LookAhead)

\* reheat_start with the length test off by one: "if len(window) <= 5: continue"
reheat_start_le(daily_data, p) ==
    LET window == lookahead_window(daily_data, p)
    IN  /\ ~(Len(window) <= MinSamples)
        /\ window[Len(window)].temp - window[1].temp >= MinRise

\* the body of "for idx in low_temp_indices": TRUE when the loop breaks at p
reheat_start(daily_data, p) ==
    LET window == lookahead_window(daily_data, p)
    IN  /\ ~(Len(window) < MinSamples)
        /\ window[Len(window)].temp - window[1].temp >= MinRise

\* strict_start without the "break": the last hit wins
strict_start_last(daily_data, temp_start) ==
    LET hits == {p \in low_temp_indices(daily_data, temp_start) :
                     reheat_start(daily_data, p)}
    IN  IF hits = {} THEN 0 ELSE Max(hits)

\* strict mode: position of start_row, 0 when start_row stays None
strict_start(daily_data, temp_start) ==
    LET hits == {p \in low_temp_indices(daily_data, temp_start) :
                     reheat_start(daily_data, p)}
    IN  IF hits = {} THEN 0 ELSE Min(hits)

\* non-strict mode: start_candidates.iloc[0], 0 when start_candidates.empty
first_start(daily_data, temp_start) ==
    LET start_candidates == low_temp_indices(daily_data, temp_start)
    IN  IF start_candidates = {} THEN 0 ELSE Min(start_candidates)

\* daily_data[daily_data['일시'] > start_time]
post_start_data(daily_data, start_time) ==
    SelectSeq(daily_data, LAMBDA r : r.t > start_time)

\* (온도 >= temp_holding_min) & (온도 <= temp_holding_max)
is_holding(r, temp_holding_min, temp_holding_max) ==
    r.temp >= temp_holding_min /\ r.temp <= temp_holding_max

\* the groups of post_start_data[is_holding].groupby('group'): the maximal runs
\* i..j of rows whose flag is_holding is TRUE ('group' is the running count of
\* flag changes from one row to the next)
holding_groups(psd, temp_holding_min, temp_holding_max) ==
    {g \in (DOMAIN psd) \X (DOMAIN psd) :
        /\ g[1] <= g[2]
        /\ \A k \in g[1]..g[2] : is_holding(psd[k], temp_holding_min, temp_holding_max)
        /\ g[1] = 1 \/ ~is_holding(psd[g[1] - 1], temp_holding_min, temp_holding_max)
        /\ g[2] = Len(psd) \/ ~is_holding(psd[g[2] + 1], temp_holding_min, temp_holding_max)}

\* group['일시'].max() and group['일시'].min()
group_max(psd, g) == Max({psd[k].t : k \in g[1]..g[2]})
group_min(psd, g) == Min({psd[k].t : k \in g[1]..g[2]})

\* the loop over the groups: holding_end_time, NaT when it stays None
holding_end(psd, temp_holding_min, temp_holding_max, duration_min_td) ==
    LET ok == {g \in holding_groups(psd, temp_holding_min, temp_holding_max) :
                   group_max(psd, g) - group_min(psd, g) >= duration_min_td}
        first == CHOOSE g \in ok : \A h \in ok : g[1] <= h[1]
    IN  IF ok = {} THEN NaT ELSE group_max(psd, first)

\* post_holding_data with ">=" for ">"
post_holding_data_ge(daily_data, holding_end_time) ==
    SelectSeq(daily_data, LAMBDA r : r.t >= holding_end_time)

\* daily_data[daily_data['일시'] > holding_end_time]
post_holding_data(daily_data, holding_end_time) ==
    SelectSeq(daily_data, LAMBDA r : r.t > holding_end_time)

\* post_holding_data[post_holding_data['온도'] <= temp_end]
end_candidates(daily_data, holding_end_time, temp_end) ==
    SelectSeq(post_holding_data(daily_data, holding_end_time),
              LAMBDA r : r.temp <= temp_end)

\* abnormal_low_temp with "<=" for "<" on the temperature
abnormal_low_temp_le(daily_data, start_time, end_time, temp_start) ==
    LET check_start_time == start_time + timedelta_hours(CheckDelayHours)
        cycle_window == SelectSeq(daily_data,
                            LAMBDA r : r.t >= check_start_time /\ r.t < end_time)
    IN  SelectSeq(cycle_window, LAMBDA r : r.temp <= temp_start)

\* cycle_window[cycle_window['온도'] < temp_start]
abnormal_low_temp(daily_data, start_time, end_time, temp_start) ==
    LET check_start_time == start_time + timedelta_hours(CheckDelayHours)
        cycle_window == SelectSeq(daily_data,
                            LAMBDA r : r.t >= check_start_time /\ r.t < end_time)
    IN  SelectSeq(cycle_window, LAMBDA r : r.temp < temp_start)

\* return None, <message>
Rejected(msg, at) ==
    [found |-> FALSE, start_row |-> NoRow, end_row |-> NoRow, holding_end |-> NaT,
     msg |-> msg, abnormal_time |-> at]

\* return {'start_row': ..., 'end_row': ..., 'holding_end': ...}, "성공"
Found(start_row, end_row, holding_end_time) ==
    [found |-> TRUE, start_row |-> start_row, end_row |-> end_row,
     holding_end |-> holding_end_time, msg |-> "Success", abnormal_time |-> NaT]

\* The messages, by the name the error taxonomy gives them:
\*   "장입 후 유효한 승온 시작 지점 없음"            NoValidReheatStart
\*   "시작 온도(..도 이하) 없음"                      NoStartCandidate
\*   "유효 홀딩 구간(.. 이상) 없음"                   NoValidHoldingInterval
\*   "종료 온도(..도 이하) 도달 안 함"                EndNotReached
\*   "사이클 시작 2시간 후 비정상적인 저온 발생 .."   AbnormalLowTemperature
analyze_cycle(daily_data, temp_start, temp_holding_min, temp_holding_max, duration_holding_min, temp_end, check_strict_start) ==
    LET sp == IF check_strict_start
              THEN strict_start(daily_data, temp_start)
              ELSE first_start(daily_data, temp_start)
    IN  IF sp = 0
        THEN Rejected(IF check_strict_start THEN "NoValidReheatStart"
                                            ELSE "NoStartCandidate", NaT)
        ELSE
        LET start_row == daily_data[sp]
            start_time == start_row.t
            psd == post_start_data(daily_data, start_time)
            duration_min_td == timedelta_hours(duration_holding_min)
            holding_end_time == holding_end(psd, temp_holding_min, temp_holding_max,
                                            duration_min_td)
        IN  IF holding_end_time = NaT
            THEN Rejected("NoValidHoldingInterval", NaT)
            ELSE
            LET cands == end_candidates(daily_data, holding_end_time, temp_end)
            IN  IF cands = <<>>
                THEN Rejected("EndNotReached", NaT)
                ELSE
                LET end_row == cands[1]
                    low == abnormal_low_temp(daily_data, start_time, end_row.t, temp_start)
                IN  IF check_strict_start /\ low # <<>>
                    THEN Rejected("AbnormalLowTemperature", strftime_minute(low[1].t))
                    ELSE Found(start_row, end_row, holding_end_time)

(***************************************************************************)
(* The configuration: the sidebar values main() hands to process_data      *)
(***************************************************************************)
DefaultTempStart == 600        \* st.number_input("시작 온도 (Max)", value=600)
DefaultHoldingMin == 1230      \* st.number_input("홀딩 온도 (Min)", value=1230)
DefaultHoldingMax == 1270      \* st.number_input("홀딩 온도 (Max)", value=1270)
DefaultTempEnd == 900          \* st.number_input("종료 온도 (Max)", value=900)
DefaultDuration == 10          \* st.number_input("홀딩 최소 지속 시간", value=10.0)
MinTolerance == 1              \* min_value=1
MaxTolerance == 48             \* max_value=48
DefaultTargetCost == 2553      \* st.number_input("목표 원단위", value=25.53), in hundredths

Config(duration, strict, tolerance) ==
    [temp_start |-> DefaultTempStart,
     temp_holding_min |-> DefaultHoldingMin,
     temp_holding_max |-> DefaultHoldingMax,
     duration_holding_min |-> duration,
     temp_end |-> DefaultTempEnd,
     check_strict_start |-> strict,
     time_tolerance_hours |-> tolerance,
     use_target_cost |-> TRUE,
     target_cost |-> DefaultTargetCost]

\* the checkbox "목표 원단위 사용" set to use; unchecked, target_cost is None
with_target(c, use) ==
    [c EXCEPT !.use_target_cost = use,
              !.target_cost = IF use THEN DefaultTargetCost ELSE 0]

\* analyze_cycle on a window under a configuration
detect(daily_data, c) ==
    analyze_cycle(daily_data, c.temp_start, c.temp_holding_min, c.temp_holding_max,
                  c.duration_holding_min, c.temp_end, c.check_strict_start)

NotRun == Rejected("NotRun", NaT)
NotReturned == [kind |-> "running", results |-> None, sensor |-> None, error |-> None]

(***************************************************************************)
(* The detector on its own, applied to every window of up to MaxWindow     *)
(* readings.  A window is a time slice of one unit's rows of df_sensor:    *)
(* rows of one file (sorted, no duplicate timestamp, consecutive labels),  *)
(* possibly followed by a row of a later file of the same unit (any        *)
(* timestamp; its label follows on, or lies further on when another        *)
(* unit's file was read in between).                                       *)
(***************************************************************************)
MaxWindow == 5
DetUnit == <<1, TRUE>>
\* readings on the hour, 30 seconds past the minute
DetTimes == {timedelta_hours(h) + (SecondsPerMinute \div 2) : h \in 0..4}
DetTemps == {595, 600, 900, 1000, 1250}
DetDurations == {0, 1}
DetGaps == {0, LookAhead}

DetRow(idx, t, temp) == [idx |-> idx, unit |-> DetUnit, t |-> t, temp |-> temp, gas |-> 0]

\* the rows that can follow the rows w in a window
NextRows(w) ==
    IF w = <<>> THEN {DetRow(1, t, temp) : t \in DetTimes, temp \in DetTemps}
    ELSE LET last == w[Len(w)]
             late == \E k \in 1..(Len(w) - 1) :
                         w[k + 1].t <= w[k].t \/ w[k + 1].idx # w[k].idx + 1
         IN  IF late THEN {}
             ELSE {DetRow(last.idx + 1, t, temp) :
                       t \in {x \in DetTimes : x > last.t}, temp \in DetTemps}
                  \cup {DetRow(last.idx + 1 + gap, t, temp) :
                       gap \in DetGaps, t \in DetTimes, temp \in DetTemps}

DetInit ==
    /\ pc = "detector"
    /\ daily_window = <<>>
    /\ cfg \in {Config(d, s, MinTolerance) : d \in DetDurations, s \in BOOLEAN}
    /\ cycle_info = NotRun
    /\ sensor_files = <<>> /\ prod_table = <<>> /\ df_prod = <<>>
    /\ fi = 0 /\ df_list = <<>> /\ df_sensor = <<>> /\ unit_ids = <<>>
    /\ ui = 0 /\ ci = 0 /\ window_start = NaT /\ window_end = NaT
    /\ results = <<>> /\ ret = NotReturned

\* cycle_info, msg = analyze_cycle(temp_data, ...) on the window one reading longer
Detect ==
    /\ pc = "detector"
    /\ Len(daily_window) < MaxWindow
    /\ \E r \in NextRows(daily_window) :
           /\ daily_window' = Append(daily_window, r)
           /\ cycle_info' = detect(Append(daily_window, r), cfg)
    /\ UNCHANGED <<pc, sensor_files, prod_table, cfg, df_prod, fi, df_list, df_sensor,
                   unit_ids, ui, ci, window_start, window_end, results, ret>>

DetNext == Detect

DetSpec == DetInit /\ [][DetNext]_vars

(***************************************************************************)
(* The detector in strict mode on longer windows: readings an hour apart,  *)
(* the rows of one file, or of two files of the unit (the labels of the    *)
(* second file lie further on, another unit's file having been read in     *)
(* between).                                                               *)
(***************************************************************************)
MaxReheatWindow == 6
ReheatTemps == {595, 600, 605, 1250}

\* the rows that can follow the rows w: the next row of the file, or the first
\* row of the second file
ReheatRows(w) ==
    IF w = <<>> THEN {DetRow(1, 0, temp) : temp \in ReheatTemps}
    ELSE LET last == w[Len(w)]
             second == \E k \in 1..(Len(w) - 1) : w[k + 1].idx # w[k].idx + 1
         IN  {DetRow(last.idx + 1 + gap, timedelta_hours(Len(w)), temp) :
                  gap \in IF second THEN {0} ELSE DetGaps, temp \in ReheatTemps}

ReheatInit ==
    /\ pc = "reheat"
    /\ daily_window = <<>>
    /\ cfg \in {Config(d, TRUE, MinTolerance) : d \in DetDurations}
    /\ cycle_info = NotRun
    /\ sensor_files = <<>> /\ prod_table = <<>> /\ df_prod = <<>>
    /\ fi = 0 /\ df_list = <<>> /\ df_sensor = <<>> /\ unit_ids = <<>>
    /\ ui = 0 /\ ci = 0 /\ window_start = NaT /\ window_end = NaT
    /\ results = <<>> /\ ret = NotReturned

\* cycle_info, msg = analyze_cycle(temp_data, ...) on the window one reading longer
DetectReheat ==
    /\ pc = "reheat"
    /\ Len(daily_window) < MaxReheatWindow
    /\ \E r \in ReheatRows(daily_window) :
           /\ daily_window' = Append(daily_window, r)
           /\ cycle_info' = detect(Append(daily_window, r), cfg)
    /\ UNCHANGED <<pc, sensor_files, prod_table, cfg, df_prod, fi, df_list, df_sensor,
                   unit_ids, ui, ci, window_start, window_end, results, ret>>

ReheatNext == DetectReheat

ReheatSpec == ReheatInit /\ [][ReheatNext]_vars

(***************************************************************************)
(* process_data: helpers on data frames                                    *)
(***************************************************************************)
MaxUnits == 20                 \* if len(unit_ids) > 20
WindowHours == 48              \* prod_start_time + timedelta(hours=48)

\* the k-th smallest element of a set of numbers
Kth(S, k) == CHOOSE x \in S : Cardinality({y \in S : y < x}) = k - 1

\* the rows of s at the positions P, in the order of s
RowsAt(s, P) == [k \in 1..Cardinality(P) |-> s[Kth(P, k)]]

\* extract_furnace_id_from_filename: a file name is [prefix, digits, hogi]: whether
\* it holds '가열로' followed by digits, the digits, and whether '호기' follows
\* them.  The id is the matched text without its blanks: '가열로<digits>[호기]'.
extract_furnace_id_from_filename(filename) ==
    IF filename.prefix THEN <<filename.digits, filename.hogi>> ELSE NoUnit

\* df.sort_values(by): the default sort is not stable, so rows of equal key come
\* in any order
sort_values(rows, by) ==
    IF rows = <<>> THEN {<<>>}
    ELSE {[k \in DOMAIN rows |-> rows[p[k]]] :
            p \in {q \in Permutations(DOMAIN rows) :
                      \A k \in 1..(Len(rows) - 1) : rows[q[k]][by] <= rows[q[k + 1]][by]}}

\* df.drop_duplicates(subset=['일시', '가열로'], keep='last') of one file's rows
drop_duplicates_last(rows) ==
    RowsAt(rows, {i \in DOMAIN rows : \A j \in DOMAIN rows : j > i => rows[j].t # rows[i].t})

\* lines 215-226: the frames one readable, named file can leave in df_list
file_frames(f, unit_id) ==
    LET tagged == [k \in DOMAIN f.rows |->
                      [unit |-> unit_id, t |-> f.rows[k].t, temp |-> f.rows[k].temp,
                       gas |-> f.rows[k].gas]]
        kept == SelectSeq(tagged, LAMBDA r : r.t # NaT)
    IN  {drop_duplicates_last(sorted) : sorted \in sort_values(kept, "t")}

\* pd.concat(df_list, ignore_index=True): the rows of the frames one after another,
\* labelled 0, 1, 2, ...
RECURSIVE concat_rows(_)
concat_rows(frames) ==
    IF frames = <<>> THEN <<>> ELSE frames[1] \o concat_rows(Tail(frames))

concat(frames) ==
    LET rows == concat_rows(frames)
    IN  [k \in DOMAIN rows |->
            [idx |-> k - 1, unit |-> rows[k].unit, t |-> rows[k].t,
             temp |-> rows[k].temp, gas |-> rows[k].gas]]

\* df_sensor['가열로'].unique(): the unit ids in the order of first appearance
unique_units(rows) ==
    LET first == {i \in DOMAIN rows : \A j \in 1..(i - 1) : rows[j].unit # rows[i].unit}
    IN  [k \in 1..Cardinality(first) |-> rows[Kth(first, k)].unit]

\* df_prod.dropna(subset=['시작일시', '장입량', '가열로']).sort_values('시작일시')
preprocess_prod(table) ==
    sort_values(SelectSeq(table, LAMBDA c : c.start # NaT /\ c.weight # NaN /\ c.unit # NoUnit),
                "start")

\* df_sensor[df_sensor['가열로'] == unit_id]
sensor_of_unit(sensor, unit_id) == SelectSeq(sensor, LAMBDA r : r.unit = unit_id)

\* df_prod[df_prod['가열로'] == unit_id]
prod_of_unit(prod, unit_id) == SelectSeq(prod, LAMBDA c : c.unit = unit_id)

\* window_start and window_end of a charge
search_window_start(prod_start_time, time_tolerance_hours) ==
    prod_start_time - timedelta_hours(time_tolerance_hours)

search_window_end(prod_start_time) ==
    prod_start_time + timedelta_hours(WindowHours)

\* search_window with "<=" for "<" at the end of the window
search_window_le(df_sensor_unit, w_start, w_end) ==
    SelectSeq(df_sensor_unit, LAMBDA r : r.t >= w_start /\ r.t <= w_end)

\* df_sensor_unit[(일시 >= window_start) & (일시 < window_end)]
search_window(df_sensor_unit, w_start, w_end) ==
    SelectSeq(df_sensor_unit, LAMBDA r : r.t >= w_start /\ r.t < w_end)

\* too_many_units with ">=" for ">"
too_many_units_ge(n) == n >= MaxUnits

\* the two unit-count tests
too_many_units(n) == n > MaxUnits
no_units(n) == n = 0

\* return None, None, <message>
\* lines 302-309: unit = gas_used / (charge_kg / 1000) is compared unrounded with
\* target_cost (here in hundredths); no run reaches these lines, line 277 raises
achievement(gas_used, charge_kg, use_target_cost, target_cost) ==
    IF use_target_cost
    THEN IF 100 * 1000 * gas_used <= target_cost * charge_kg THEN "Pass" ELSE "Fail"
    ELSE "N/A"

Failed(msg) == [kind |-> "returned", results |-> None, sensor |-> None, error |-> msg]

\* return pd.DataFrame(results), df_sensor, None
Returned(rows, sensor) == [kind |-> "returned", results |-> rows, sensor |-> sensor, error |-> None]

\* an exception that nothing in process_data catches
Raised(exc) == [kind |-> "raised", results |-> None, sensor |-> None, error |-> exc]

(***************************************************************************)
(* The inputs of a run                                                     *)
(***************************************************************************)
MaxFiles == 2                  \* sensor files besides the one-reading files
MaxCharges == 2                \* rows of the production table

Hour(h) == timedelta_hours(h)
HalfHour == 30 * SecondsPerMinute

Reading(t, temp, gas) == [t |-> t, temp |-> temp, gas |-> gas]
FileName(prefix, digits, hogi) == [prefix |-> prefix, digits |-> digits, hogi |-> hogi]
SensorFile(name, load, rows) == [name |-> name, load |-> load, rows |-> rows]
Charge(start, weight, unit) == [start |-> start, weight |-> weight, unit |-> unit]

Unit1 == <<1, TRUE>>
Unit2 == <<2, FALSE>>

\* '가열로1호기_a': a whole cycle from 09:30 (holding 11:00 - 21:00, end 22:00),
\* rows out of order and the last timestamp twice
FileCycle ==
    SensorFile(FileName(TRUE, 1, TRUE), "ok",
        <<Reading(Hour(59), 1250, 200), Reading(Hour(57) + HalfHour, 600, 100),
          Reading(Hour(69), 1250, 400), Reading(Hour(70), 900, 590),
          Reading(Hour(70), 900, 600)>>)
\* '가열로 1 호기_b': more readings of the same unit
FileMore ==
    SensorFile(FileName(TRUE, 1, TRUE), "ok",
        <<Reading(Hour(16), 700, 50), Reading(Hour(57) + HalfHour, 650, 90),
          Reading(Hour(104), 800, 700)>>)
\* '가열로2': a whole cycle whose meter does not advance, and an unparseable timestamp
FileFlat ==
    SensorFile(FileName(TRUE, 2, FALSE), "ok",
        <<Reading(Hour(57), 600, 300), Reading(NaT, 0, 0), Reading(Hour(58), 1250, 300),
          Reading(Hour(68), 1250, 300), Reading(Hour(69), 900, 300)>>)
\* 'sensor.csv': no unit id in the name
FileNoId == SensorFile(FileName(FALSE, 0, FALSE), "ok", <<Reading(Hour(56), 700, 0)>>)
\* smart_read_file returns None
FileUnreadable == SensorFile(FileName(TRUE, 3, TRUE), "none", <<>>)
\* the time column is missing: the mapping raises
FileNoColumn == SensorFile(FileName(TRUE, 3, TRUE), "maperror", <<Reading(Hour(56), 700, 0)>>)
\* no row has a parseable timestamp
FileNoRows == SensorFile(FileName(TRUE, 4, TRUE), "ok", <<Reading(NaT, 700, 0)>>)

FilePool == {FileCycle, FileMore, FileFlat, FileNoId, FileUnreadable, FileNoColumn, FileNoRows}

\* n files of n further units, one reading each
OneReadingFiles(n) ==
    [k \in 1..n |-> SensorFile(FileName(TRUE, 100 + k, TRUE), "ok",
                               <<Reading(Hour(56), 700, 0)>>)]

ChargePool ==
    {Charge(Hour(56), 20000, Unit1),      \* 08:00, 20 t
     Charge(Hour(57), 10000, Unit1),      \* 09:00, the same unit an hour later
     Charge(Hour(400), 1000, Unit1),      \* no reading anywhere near
     Charge(NaT, 1000, Unit1),            \* unparseable start
     Charge(Hour(56), NaN, Unit1),        \* unparseable weight
     Charge(Hour(56), 5000, Unit2),
     Charge(Hour(56), 5000, <<9, TRUE>>)} \* a unit without sensor file

SeqsUpTo(S, n) == UNION {[1..k -> S] : k \in 0..n}

Tolerances == {MinTolerance, 2, MaxTolerance}

\* the sidebar: target mode on with any of the tolerances, or target mode off
Configs ==
    {Config(DefaultDuration, FALSE, tol) : tol \in Tolerances}
        \cup {with_target(Config(DefaultDuration, FALSE, MinTolerance), FALSE)}

\* The inputs: up to MaxFiles files of the units under study and a table of up
\* to MaxCharges charges; or at most one file of any kind, followed by one-reading
\* files of up to MaxUnits further units, and a table of at most one charge.
FewUnitFiles == {FileCycle, FileMore, FileFlat, FileNoRows}

ManyUnitInputs ==
    {first \o OneReadingFiles(n) :
        first \in {<<>>} \cup {<<f>> : f \in FilePool},
        n \in {0, MaxUnits - 1, MaxUnits}}

ProdTable(rows) == [ok |-> TRUE, rows |-> rows]
BadTable == [ok |-> FALSE, rows |-> <<>>]

Init ==
    /\ pc = "start"
    /\ \/ /\ sensor_files \in SeqsUpTo(FewUnitFiles, MaxFiles)
          /\ prod_table \in {ProdTable(rows) : rows \in SeqsUpTo(ChargePool, MaxCharges)}
       \/ /\ sensor_files \in ManyUnitInputs
          /\ prod_table \in {BadTable, ProdTable(<<>>)} \cup {ProdTable(<<c>>) : c \in ChargePool}
    /\ cfg \in Configs
    /\ df_prod = <<>> /\ fi = 0 /\ df_list = <<>> /\ df_sensor = <<>>
    /\ unit_ids = <<>> /\ ui = 0 /\ ci = 0
    /\ window_start = NaT /\ window_end = NaT /\ daily_window = <<>>
    /\ cycle_info = NotRun /\ results = <<>> /\ ret = NotReturned

(***************************************************************************)
(* process_data                                                            *)
(***************************************************************************)
\* lines 183-191: the production table; a missing column raises inside the try
PreprocessProd ==
    /\ pc = "start"
    /\ IF prod_table.ok
       THEN /\ \E sorted \in preprocess_prod(prod_table.rows) : df_prod' = sorted
            /\ pc' = "files"
            /\ ret' = ret
       ELSE /\ ret' = Failed("ProductionError")
            /\ pc' = "returned"
            /\ df_prod' = df_prod
    /\ UNCHANGED <<sensor_files, prod_table, cfg, fi, df_list, df_sensor, unit_ids, ui, ci,
                   window_start, window_end, daily_window, cycle_info, results>>

\* lines 195-230: one iteration of "for f in sensor_files"
ReadSensorFile ==
    /\ pc = "files"
    /\ fi < Len(sensor_files)
    /\ LET f == sensor_files[fi + 1]
           unit_id == extract_furnace_id_from_filename(f.name)
       IN  IF f.load = "none" \/ unit_id = NoUnit \/ f.load = "maperror"
           THEN df_list' = df_list
           ELSE \E frame \in file_frames(f, unit_id) : df_list' = Append(df_list, frame)
    /\ fi' = fi + 1
    /\ UNCHANGED <<pc, sensor_files, prod_table, cfg, df_prod, df_sensor, unit_ids, ui, ci,
                   window_start, window_end, daily_window, cycle_info, results, ret>>

\* lines 232-245: the concatenation and the unit-count tests
CheckUnits ==
    /\ pc = "files"
    /\ fi = Len(sensor_files)
    /\ IF df_list = <<>>
       THEN /\ ret' = Failed("NoSensorData")
            /\ pc' = "returned"
            /\ UNCHANGED <<df_sensor, unit_ids>>
       ELSE /\ df_sensor' = concat(df_list)
            /\ unit_ids' = unique_units(concat(df_list))
            /\ IF too_many_units(Len(unit_ids'))
               THEN ret' = Failed("TooManyUnits") /\ pc' = "returned"
               ELSE IF no_units(Len(unit_ids'))
               THEN ret' = Failed("NoValidUnits") /\ pc' = "returned"
               ELSE ret' = ret /\ pc' = "units"
    /\ UNCHANGED <<sensor_files, prod_table, cfg, df_prod, fi, df_list, ui, ci,
                   window_start, window_end, daily_window, cycle_info, results>>

\* lines 247-252: the next unit; a unit without charges is skipped
NextUnit ==
    /\ pc = "units"
    /\ ui < Len(unit_ids)
    /\ ui' = ui + 1
    /\ ci' = 0
    /\ pc' = IF prod_of_unit(df_prod, unit_ids[ui + 1]) = <<>> THEN "units" ELSE "charges"
    /\ UNCHANGED <<sensor_files, prod_table, cfg, df_prod, fi, df_list, df_sensor, unit_ids,
                   window_start, window_end, daily_window, cycle_info, results, ret>>

\* lines 256-277: the next charge of the unit.  An empty window is skipped.  With
\* a reading in the window, line 277 evaluates the arguments of analyze_cycle;
\* duration_min_td is a name neither process_data nor the module binds (it is a
\* local of analyze_cycle), so the evaluation raises NameError before
\* analyze_cycle is entered, and neither process_data nor main catches it.
MatchCharge ==
    /\ pc = "charges"
    /\ LET unit_id == unit_ids[ui]
           df_sensor_unit == sensor_of_unit(df_sensor, unit_id)
           df_prod_unit == prod_of_unit(df_prod, unit_id)
           prod_start_time == df_prod_unit[ci + 1].start
           w_start == search_window_start(prod_start_time, cfg.time_tolerance_hours)
           w_end == search_window_end(prod_start_time)
           window == search_window(df_sensor_unit, w_start, w_end)
       IN  /\ ci < Len(df_prod_unit)
           /\ ci' = ci + 1
           /\ window_start' = w_start
           /\ window_end' = w_end
           /\ daily_window' = window
           /\ IF window = <<>>
              THEN /\ pc' = IF ci + 1 = Len(df_prod_unit) THEN "units" ELSE "charges"
                   /\ ret' = ret
              ELSE /\ pc' = "raised"
                   /\ ret' = Raised("NameError")
    /\ UNCHANGED <<sensor_files, prod_table, cfg, df_prod, fi, df_list, df_sensor, unit_ids,
                   ui, cycle_info, results>>

\* line 326: the loops are over
ReturnResults ==
    /\ pc = "units"
    /\ ui = Len(unit_ids)
    /\ ret' = Returned(results, df_sensor)
    /\ pc' = "returned"
    /\ UNCHANGED <<sensor_files, prod_table, cfg, df_prod, fi, df_list, df_sensor, unit_ids,
                   ui, ci, window_start, window_end, daily_window, cycle_info, results>>

Next ==
    \/ PreprocessProd
    \/ ReadSensorFile
    \/ CheckUnits
    \/ NextUnit
    \/ MatchCharge
    \/ ReturnResults

Spec == Init /\ [][Next]_vars

(***************************************************************************)
(* Properties                                                              *)
(***************************************************************************)
Abs(x) == IF x < 0 THEN -x ELSE x

\* analyze_cycle has been applied to daily_window
Analyzed == cycle_info.msg # "NotRun"

\* the run is over: process_data returned, or an exception left it
Ended == pc \in {"returned", "raised"}

\* the unit ids the sensor files resolve to: those of the files that load, carry
\* an id in their name and hold a reading with a timestamp
ResolvedUnits ==
    {extract_furnace_id_from_filename(sensor_files[k].name) :
        k \in {j \in DOMAIN sensor_files :
                 /\ sensor_files[j].load = "ok"
                 /\ sensor_files[j].name.prefix
                 /\ \E i \in DOMAIN sensor_files[j].rows : sensor_files[j].rows[i].t # NaT}}

\* the run got past the unit-count tests
PastUnitTests == pc \in {"units", "charges", "raised"} \/ (pc = "returned" /\ ret.error = None)

\* what the detector finds in the search window of the charge c
WindowOf(c) ==
    search_window(sensor_of_unit(df_sensor, c.unit),
                  c.start - Hour(cfg.time_tolerance_hours), c.start + Hour(48))

CandidateOf(c) == detect(WindowOf(c), cfg)

\* the charge c reaches the matcher: it survives the preprocessing, its unit has
\* sensor data and its search window holds a reading
Searched(c) ==
    /\ c.start # NaT /\ c.weight # NaN /\ c.unit # NoUnit
    /\ WindowOf(c) # <<>>

\* the charge c is to yield a CycleResult: a cycle is detected in its window, within
\* the tolerance, with a positive weight and a positive gas use
Matches(c) ==
    /\ Searched(c)
    /\ CandidateOf(c).found
    /\ Abs(c.start - CandidateOf(c).start_row.t) <= Hour(cfg.time_tolerance_hours)
    /\ c.weight > 0
    /\ CandidateOf(c).end_row.gas - CandidateOf(c).start_row.gas > 0

TableCharges == {prod_table.rows[k] : k \in DOMAIN prod_table.rows}

\* C1: whenever analyze_cycle returns a candidate it is one candidate, made of
\* readings of the window, and its anchors are strictly ordered in time:
\* start < holdingEnd < end.
C1_AnchorsOrdered ==
    (Analyzed /\ cycle_info.found) =>
        /\ \E i \in DOMAIN daily_window : daily_window[i] = cycle_info.start_row
        /\ \E i \in DOMAIN daily_window : daily_window[i] = cycle_info.end_row
        /\ cycle_info.start_row.t < cycle_info.holding_end
        /\ cycle_info.holding_end < cycle_info.end_row.t

\* a candidate is returned in strict mode
C1_Witness == Analyzed /\ cycle_info.found /\ cfg.check_strict_start

\* C2 as claimed: with 1 to 20 unit ids and a well-formed production table no
\* charge makes the run raise; a charge with a reading in its window has the
\* detector applied to that window with the configured holding duration.
C2_NoChargeAbortsRun ==
    (prod_table.ok /\ Cardinality(ResolvedUnits) \in 1..MaxUnits) =>
        /\ pc # "raised"
        /\ (pc = "charges" /\ daily_window # <<>>) => cycle_info = detect(daily_window, cfg)

\* C3 as claimed: when the run is over every result lies within the tolerance of
\* its charge, and a charge whose detected cycle starts within the tolerance
\* (the tolerance itself included) has been accepted.
C3_ToleranceDecides ==
    (Ended /\ PastUnitTests) =>
        /\ \A k \in DOMAIN results :
               Abs(results[k].charge.start - results[k].start_row.t)
                   <= Hour(cfg.time_tolerance_hours)
        /\ \A c \in TableCharges :
               Matches(c) => \E k \in DOMAIN results : results[k].charge = c

\* C4 as claimed: no result has a weight or a gas use that is not positive, and
\* a detected cycle whose meter is flat or decreasing between its anchors never
\* makes the run fail.
C4_FlatMeterIsSkipped ==
    /\ \A k \in DOMAIN results :
           results[k].charge.weight > 0 /\ results[k].end_row.gas - results[k].start_row.gas > 0
    /\ pc = "raised" =>
           ~(/\ detect(daily_window, cfg).found
             /\ detect(daily_window, cfg).end_row.gas
                    - detect(daily_window, cfg).start_row.gas <= 0)

\* C5: with more than 20 unit ids, or none, the run returns an error, no result
\* table and no sensor table, and no charge has been looked at; with 1 to 20
\* unit ids (20 included) the unit-count tests let the run proceed.
C5_UnitCountGate ==
    (prod_table.ok /\ pc \notin {"start", "files"}) =>
        /\ Cardinality(ResolvedUnits) > 20 =>
               /\ ret = Failed("TooManyUnits")
               /\ pc = "returned" /\ results = <<>> /\ ui = 0 /\ ci = 0 /\ window_start = NaT
        /\ Cardinality(ResolvedUnits) = 0 =>
               /\ ret \in {Failed("NoValidUnits"), Failed("NoSensorData")}
               /\ pc = "returned" /\ results = <<>> /\ ui = 0 /\ ci = 0 /\ window_start = NaT
        /\ Cardinality(ResolvedUnits) \in 1..20 => PastUnitTests

\* 21 unit ids: the run was rejected
C5_Witness == Cardinality(ResolvedUnits) = 21 /\ pc = "returned" /\ ret = Failed("TooManyUnits")

\* no reading of the window is at or below startMax
NoLowReading == \A i \in DOMAIN daily_window : daily_window[i].temp > cfg.temp_start

\* the reading at position i is at or below startMax, and the readings labelled
\* from its label to its label + 10 are at least 5 and rise by at least 5 degrees
\* from the first to the last
QualifyingRise(i) ==
    LET slice == {j \in DOMAIN daily_window :
                     /\ daily_window[j].idx >= daily_window[i].idx
                     /\ daily_window[j].idx <= daily_window[i].idx + 10}
    IN  /\ daily_window[i].temp <= cfg.temp_start
        /\ Cardinality(slice) >= 5
        /\ daily_window[Max(slice)].temp - daily_window[i].temp >= 5

\* C6, amended: in non-strict mode the reason is NoStartCandidate exactly when
\* the window holds no reading at or below startMax.  In strict mode
\* NoStartCandidate is never returned: the reason is NoValidReheatStart exactly
\* when no reading at or below startMax has a qualifying look-ahead rise, the
\* window without any reading at or below startMax included.  NoValidReheatStart
\* is returned in strict mode only.
C6_ReasonByMode ==
    Analyzed =>
        /\ ~cfg.check_strict_start =>
               /\ (cycle_info.msg = "NoStartCandidate") <=> NoLowReading
               /\ cycle_info.msg # "NoValidReheatStart"
        /\ cfg.check_strict_start =>
               /\ cycle_info.msg # "NoStartCandidate"
               /\ (cycle_info.msg = "NoValidReheatStart")
                      <=> (\A i \in DOMAIN daily_window : ~QualifyingRise(i))

\* strict mode, no reading at or below startMax: NoValidReheatStart
C6_Witness ==
    /\ Analyzed /\ cfg.check_strict_start /\ NoLowReading
    /\ cycle_info.msg = "NoValidReheatStart"

\* C6 as claimed: without a reading at or below startMax the reason is
\* NoStartCandidate in both modes, and NoValidReheatStart is returned only in
\* strict mode with a reading at or below startMax none of which qualifies.
C6_ReasonAsClaimed ==
    Analyzed =>
        /\ NoLowReading => cycle_info.msg = "NoStartCandidate"
        /\ cycle_info.msg = "NoValidReheatStart" =>
               /\ cfg.check_strict_start
               /\ ~NoLowReading
               /\ \A i \in DOMAIN daily_window : ~QualifyingRise(i)

\* C7 as claimed: the rows returned are those of the charges that match, in the
\* order of the production table.
C7_RowsInTableOrder ==
    (Ended /\ PastUnitTests) =>
        [k \in DOMAIN results |-> results[k].charge]
            = SelectSeq(prod_table.rows, LAMBDA c : Matches(c))

\* C8 as claimed: the sensor rows of each unit handed to the matcher have
\* strictly increasing timestamps (sorted, one reading per timestamp).
C8_UnitRowsIncreasing ==
    PastUnitTests =>
        \A u \in {df_sensor[k].unit : k \in DOMAIN df_sensor} :
            LET rows == sensor_of_unit(df_sensor, u)
            IN  \A k \in 1..(Len(rows) - 1) : rows[k].t < rows[k + 1].t

\* the readings of the current search window, from the first to the last in time
WindowSpan ==
    Max({daily_window[k].t : k \in DOMAIN daily_window})
        - Min({daily_window[k].t : k \in DOMAIN daily_window})

\* C9, amended: the search window of a charge is [chargeStart - tolerance,
\* chargeStart + 48h): it is tolerance + 48 hours long, which is at most 96
\* hours for the tolerances allowed (and at most 50 hours only for a tolerance
\* of 1 or 2 hours), and every reading in it lies in that interval.
C9_WindowBound ==
    window_start # NaT =>
        /\ \E k \in DOMAIN df_prod :
               /\ window_start = df_prod[k].start - Hour(cfg.time_tolerance_hours)
               /\ window_end = df_prod[k].start + Hour(48)
        /\ window_end - window_start = Hour(cfg.time_tolerance_hours + 48)
        /\ window_end - window_start <= Hour(96)
        /\ cfg.time_tolerance_hours <= 2 => window_end - window_start <= Hour(50)
        /\ \A k \in DOMAIN daily_window :
               daily_window[k].t >= window_start /\ daily_window[k].t < window_end

\* a search window whose readings span more than 50 hours
C9_Witness == window_start # NaT /\ daily_window # <<>> /\ WindowSpan > Hour(50)

\* C9 as claimed: the readings of a search window span at most 50 hours.
C9_SpanAtMost50h ==
    (window_start # NaT /\ daily_window # <<>>) => WindowSpan <= Hour(50)

\* num / den in hundredths, rounded to the nearest (ties to even)
RoundHundredths(num, den) ==
    LET q == (100 * num) \div den
        r == (100 * num) % den
    IN  IF 2 * r < den THEN q
        ELSE IF 2 * r > den THEN q + 1
        ELSE IF q % 2 = 0 THEN q ELSE q + 1

\* C10 as claimed: every charge that matches has its CycleResult, whose gasUsed
\* is endMeterReading - startMeterReading, whose gasUsed and chargeWeightKg are
\* positive and whose specificConsumption is gasUsed / (chargeWeightKg / 1000)
\* to 2 decimals (500 and 20000 give 25.00).
C10_RowsConsistent ==
    (Ended /\ PastUnitTests) =>
        \A c \in TableCharges :
            Matches(c) =>
                \E k \in DOMAIN results :
                    /\ results[k].charge = c
                    /\ results[k].gas_used = results[k].end_row.gas - results[k].start_row.gas
                    /\ results[k].gas_used > 0
                    /\ results[k].charge_kg > 0
                    /\ results[k].unit_cost
                           = RoundHundredths(1000 * results[k].gas_used, results[k].charge_kg)

\* C11 as claimed: every charge that matches has its CycleResult, whose passFail
\* is Pass when target mode is on and its specificConsumption (2 decimals) is at
\* most the target, Fail when target mode is on and the target is exceeded, and
\* N/A when target mode is off.
C11_PassFailByTarget ==
    (Ended /\ PastUnitTests) =>
        \A c \in TableCharges :
            Matches(c) =>
                \E k \in DOMAIN results :
                    /\ results[k].charge = c
                    /\ results[k].achievement
                           = IF ~cfg.use_target_cost THEN "N/A"
                             ELSE IF results[k].unit_cost <= cfg.target_cost THEN "Pass"
                             ELSE "Fail"

\* the rows of the production table that are the charge c
RowsOf(c) == {i \in DOMAIN prod_table.rows : prod_table.rows[i] = c}

\* the results of the charge c
ResultsOf(c) == {k \in DOMAIN results : results[k].charge = c}

\* C12 as claimed: whether a charge yields a CycleResult, and which, is decided by
\* the charge, the sensor rows of its unit and the configuration alone: a charge
\* that matches yields one result per row of the table, which starts at the cycle
\* found in its own window, and a charge that does not match yields none; so two
\* charges whose windows hold the same cycle both yield a result with that start.
C12_ChargesIndependent ==
    (Ended /\ PastUnitTests) =>
        \A c \in TableCharges :
            /\ Cardinality(ResultsOf(c)) = IF Matches(c) THEN Cardinality(RowsOf(c)) ELSE 0
            /\ \A k \in ResultsOf(c) : results[k].start_row = CandidateOf(c).start_row

\* the positions of the window with a qualifying look-ahead rise
Qualifying == {i \in DOMAIN daily_window : QualifyingRise(i)}

\* C13, amended: in strict mode the start anchor is the first reading, in window
\* order, at or below startMax whose look-ahead slice (the reading itself and the
\* readings after it whose row label is at most 10 further on) holds at least 5
\* readings, the reading itself counted, and ends at least 5 degrees above the
\* reading; a reading whose slice is shorter or rises less is passed over, and
\* when no reading qualifies the detector rejects with NoValidReheatStart.
C13_StrictStart ==
    (Analyzed /\ cfg.check_strict_start) =>
        /\ strict_start(daily_window, cfg.temp_start)
               = IF Qualifying = {} THEN 0 ELSE Min(Qualifying)
        /\ Qualifying = {} => cycle_info.msg = "NoValidReheatStart"
        /\ cycle_info.found =>
               /\ Qualifying # {}
               /\ cycle_info.start_row = daily_window[Min(Qualifying)]

\* a candidate whose start anchor comes after a reading at or below startMax that
\* was passed over for having fewer than 5 readings in its slice
C13_Witness ==
    /\ Analyzed /\ cfg.check_strict_start /\ cycle_info.found
    /\ \E i \in DOMAIN daily_window :
           /\ daily_window[i].temp <= cfg.temp_start
           /\ daily_window[i].idx < cycle_info.start_row.idx
           /\ Len(lookahead_window(daily_window, i)) < 5

\* the reading at position i is at or below startMax, at least 5 of the up to
\* 10 readings following it are in the window, and the last of them is at
\* least 5 degrees above it
ClaimedRise(i) ==
    LET following == {j \in DOMAIN daily_window : j > i /\ j <= i + 10}
    IN  /\ daily_window[i].temp <= cfg.temp_start
        /\ Cardinality(following) >= 5
        /\ daily_window[Max(following)].temp - daily_window[i].temp >= 5

\* C13 as claimed: the start anchor is the first reading at or below startMax
\* with at least 5 of the up to 10 following readings available and a rise of
\* at least 5 degrees; if there is none the detector rejects.
C13_StartAsClaimed ==
    (Analyzed /\ cfg.check_strict_start) =>
        LET claimed == {i \in DOMAIN daily_window : ClaimedRise(i)}
        IN  /\ claimed = {} => ~cycle_info.found
            /\ cycle_info.found =>
                   /\ claimed # {}
                   /\ cycle_info.start_row = daily_window[Min(claimed)]

\* the position of the start anchor in the window, 0 when there is none
StartPos ==
    IF cfg.check_strict_start THEN strict_start(daily_window, cfg.temp_start)
    ELSE first_start(daily_window, cfg.temp_start)

\* the readings strictly after the start anchor, in window order
AfterStart == SelectSeq(daily_window, LAMBDA r : r.t > daily_window[StartPos].t)

InHoldingBand(r) == r.temp >= cfg.temp_holding_min /\ r.temp <= cfg.temp_holding_max

\* the maximal runs i..j of consecutive readings of AfterStart in the holding band
HoldingRuns ==
    {run \in (DOMAIN AfterStart) \X (DOMAIN AfterStart) :
        /\ run[1] <= run[2]
        /\ \A k \in run[1]..run[2] : InHoldingBand(AfterStart[k])
        /\ run[1] > 1 => ~InHoldingBand(AfterStart[run[1] - 1])
        /\ run[2] < Len(AfterStart) => ~InHoldingBand(AfterStart[run[2] + 1])}

\* the runs whose last timestamp - first timestamp reaches minHoldingDuration
LongRuns ==
    {run \in HoldingRuns :
        AfterStart[run[2]].t - AfterStart[run[1]].t >= Hour(cfg.duration_holding_min)}

\* the window is in timestamp order
TimeSorted == \A k \in 1..(Len(daily_window) - 1) : daily_window[k].t < daily_window[k + 1].t

\* C14 as claimed: with a start anchor, the detector rejects with
\* NoValidHoldingInterval exactly when no maximal holding run after the start
\* lasts (last timestamp - first timestamp) at least minHoldingDuration, and
\* the holdingEnd of a candidate is the last timestamp of the first such run.
C14_FirstLongRun ==
    (Analyzed /\ StartPos # 0) =>
        /\ (cycle_info.msg = "NoValidHoldingInterval") <=> (LongRuns = {})
        /\ cycle_info.found =>
               \E run \in LongRuns :
                   /\ \A other \in LongRuns : run[1] <= other[1]
                   /\ cycle_info.holding_end = AfterStart[run[2]].t

\* C14 on the windows in timestamp order
C14_SortedWindows == TimeSorted => C14_FirstLongRun

\* the anchors the detector has found before the low-temperature check
AnchorStart == daily_window[StartPos]

AnchorHoldingEnd ==
    holding_end(post_start_data(daily_window, AnchorStart.t), cfg.temp_holding_min,
                cfg.temp_holding_max, Hour(cfg.duration_holding_min))

AnchorEnds == end_candidates(daily_window, AnchorHoldingEnd, cfg.temp_end)

HasAnchors == StartPos # 0 /\ AnchorHoldingEnd # NaT /\ AnchorEnds # <<>>

\* the readings with timestamp in [start + 2h, end) strictly below startMax
LowInCycle ==
    {i \in DOMAIN daily_window :
        /\ daily_window[i].t >= AnchorStart.t + Hour(2)
        /\ daily_window[i].t < AnchorEnds[1].t
        /\ daily_window[i].temp < cfg.temp_start}

\* C15: in strict mode, when start, holdingEnd and end are found and a reading
\* of the window with timestamp in [start + 2h, end) is strictly below startMax,
\* the candidate is rejected and the reason carries the timestamp (to the
\* minute) of the first such reading of the window; otherwise the candidate is
\* returned.  So a candidate returned in strict mode has no such reading, and in
\* non-strict mode the check never rejects.
C15_NoLowReadingInCycle ==
    Analyzed =>
        /\ HasAnchors =>
               IF cfg.check_strict_start /\ LowInCycle # {}
               THEN /\ cycle_info.msg = "AbnormalLowTemperature"
                    /\ cycle_info.abnormal_time
                           = daily_window[Min(LowInCycle)].t
                               - (daily_window[Min(LowInCycle)].t % 60)
               ELSE /\ cycle_info.found
                    /\ cycle_info.start_row = AnchorStart
                    /\ cycle_info.end_row = AnchorEnds[1]
        /\ (cycle_info.found /\ cfg.check_strict_start) =>
               \A i \in DOMAIN daily_window :
                   ~(/\ daily_window[i].t >= cycle_info.start_row.t + Hour(2)
                     /\ daily_window[i].t < cycle_info.end_row.t
                     /\ daily_window[i].temp < cfg.temp_start)
        /\ cycle_info.msg = "AbnormalLowTemperature" => cfg.check_strict_start

\* a candidate of strict mode rejected for a reading below startMax, and the
\* timestamp the reason carries
C15_Witness ==
    /\ Analyzed /\ cfg.check_strict_start /\ HasAnchors /\ LowInCycle # {}
    /\ TimeSorted
    /\ cycle_info.msg = "AbnormalLowTemperature"
    /\ cycle_info.abnormal_time # NaT

\* C16: in non-strict mode the detector rejects with NoStartCandidate exactly
\* when every reading of the window is above startMax, and the start anchor of
\* a candidate is the first reading of the window, in window order, at or
\* below startMax (a reading at exactly startMax counts).
C16_FirstLowReadingStarts ==
    (Analyzed /\ ~cfg.check_strict_start) =>
        /\ NoLowReading => (cycle_info.msg = "NoStartCandidate" /\ ~cycle_info.found)
        /\ cycle_info.msg = "NoStartCandidate" => NoLowReading
        /\ cycle_info.found =>
               \E i \in DOMAIN daily_window :
                   /\ daily_window[i] = cycle_info.start_row
                   /\ daily_window[i].temp <= cfg.temp_start
                   /\ \A j \in 1..(i - 1) : daily_window[j].temp > cfg.temp_start

\* a candidate that starts at the first reading of the window, which is at
\* exactly startMax, every other reading being above startMax
C16_Witness ==
    /\ Analyzed /\ ~cfg.check_strict_start /\ cycle_info.found
    /\ cycle_info.start_row = daily_window[1]
    /\ daily_window[1].temp = cfg.temp_start
    /\ \A j \in 2..Len(daily_window) : daily_window[j].temp > cfg.temp_start

\* C17 as claimed: the end anchor of a candidate is strictly after holdingEnd and
\* at or below endMax, every reading with timestamp strictly between holdingEnd
\* and the end anchor is above endMax, and with a start and a holdingEnd the
\* detector rejects with EndNotReached exactly when no reading after holdingEnd
\* is at or below endMax.
C17_EndIsFirstCoolReading ==
    Analyzed =>
        /\ cycle_info.found =>
               /\ cycle_info.end_row.t > cycle_info.holding_end
               /\ cycle_info.end_row.temp <= cfg.temp_end
               /\ \A i \in DOMAIN daily_window :
                      (/\ daily_window[i].t > cycle_info.holding_end
                       /\ daily_window[i].t < cycle_info.end_row.t)
                          => daily_window[i].temp > cfg.temp_end
        /\ (StartPos # 0 /\ AnchorHoldingEnd # NaT) =>
               ((cycle_info.msg = "EndNotReached")
                   <=> ~\E i \in DOMAIN daily_window :
                           /\ daily_window[i].t > AnchorHoldingEnd
                           /\ daily_window[i].temp <= cfg.temp_end)

\* C17 on the windows in timestamp order
C17_SortedWindows == TimeSorted => C17_EndIsFirstCoolReading

====
